---- MODULE Spec2Model ----
(***************************************************************************)
(* stund: the RFC 5389 basic server of src/main.go.  Server.Serve loops    *)
(* over Server.serveConn, which reads one datagram, decodes it into the    *)
(* reused request message, lets basicProcess build the Binding success     *)
(* response into the reused response message and writes it back to the     *)
(* sender.  Messages are modelled byte for byte: a datagram is a sequence  *)
(* of bytes (0..255), the request is decoded from it and the response is   *)
(* the byte sequence handed to WriteTo.                                    *)
(***************************************************************************)
EXTENDS Integers, Sequences, FiniteSets, TLC

VARIABLES
    c,        \* the net.PacketConn handed to Serve: its kind
    pc,       \* where Serve/serveConn stands
    iter,     \* number of serveConn calls made by Serve's loop
    buf,      \* buf[:n] of the current serveConn call
    addr,     \* the sender address returned by ReadFrom
    req,      \* the reused request message
    res,      \* the reused response message
    wcall,    \* the arguments of the WriteTo call in progress, or NoCall
    recvd,    \* history: every datagram ReadFrom delivered, with its sender
    sent,     \* history: every datagram WriteTo sent, with its destination
    log,      \* history: the prefix of every s.log.Printf format
    ret,      \* what Serve returned ("running" while it has not)
    mpc,      \* where main stands
    cfg,      \* main's _config: Net and Address
    norm      \* the results of the calls of normalize, in order

mainVars == <<mpc, cfg, norm>>

vars == <<c, pc, iter, buf, addr, req, res, wcall, recvd, sent, log, ret, mainVars>>

----------------------------------------------------------------------------
(* Bounds of the model. *)

\* serveConn calls explored per run of Serve
MaxIter == 2

----------------------------------------------------------------------------
(* Bytes and big-endian words. *)

Byte == 0..255

Min(a, b) == IF a < b THEN a ELSE b

RECURSIVE XorBits(_, _, _)
\* bitwise exclusive or of two n-bit naturals
XorBits(a, b, n) ==
    IF n = 0 THEN 0
    ELSE ((a + b) % 2) + 2 * XorBits(a \div 2, b \div 2, n - 1)

NibXor == [a \in 0..15 |-> [b \in 0..15 |-> XorBits(a, b, 4)]]

XorByte(a, b) == 16 * NibXor[a \div 16][b \div 16] + NibXor[a % 16][b % 16]

\* x ^ y on uint16
Xor16(x, y) == 256 * XorByte(x \div 256, y \div 256) + XorByte(x % 256, y % 256)

\* binary.BigEndian.PutUint16
PutUint16(v) == <<(v \div 256) % 256, v % 256>>

\* binary.BigEndian.Uint16(b[i:i+2]), i counted from 1
Uint16(b, i) == 256 * b[i] + b[i + 1]

Zeros(n) == [i \in 1..n |-> 0]

\* s[from:] as Go slices it (from counted from 0)
Drop(s, from) == SubSeq(s, from + 1, Len(s))

----------------------------------------------------------------------------
(* CRC-32 (IEEE) over bytes; a uint32 is the pair <<high 16 bits, low 16 bits>>. *)

Xor32(v, w) == <<Xor16(v[1], w[1]), Xor16(v[2], w[2])>>

Shr1(w) == <<w[1] \div 2, (w[2] \div 2) + 32768 * (w[1] % 2)>>

Shr8(w) == <<w[1] \div 256, (w[2] \div 256) + 256 * (w[1] % 256)>>

\* the reflected polynomial 0xedb88320
crcPoly == <<60856, 33568>>

RECURSIVE crcShift(_, _)
crcShift(w, k) ==
    IF k = 0 THEN w
    ELSE crcShift(IF w[2] % 2 = 1 THEN Xor32(Shr1(w), crcPoly) ELSE Shr1(w), k - 1)

crcTable == [i \in Byte |-> crcShift(<<0, i>>, 8)]

RECURSIVE crcUpdate(_, _, _)
\* the checksum loop over b[i..]: crc = table[byte(crc) ^ b[i]] ^ (crc >> 8).
\* (The test on next evaluates it before the recursive call.)
crcUpdate(w, b, i) ==
    IF i > Len(b) THEN w
    ELSE LET next == Xor32(crcTable[XorByte(w[2] % 256, b[i])], Shr8(w))
         IN  IF next[1] < 65536 THEN crcUpdate(next, b, i + 1) ELSE next

\* crc32.ChecksumIEEE
ChecksumIEEE(b) == Xor32(crcUpdate(<<65535, 65535>>, b, 1), <<65535, 65535>>)

\* stun.FingerprintValue: the checksum xored with 0x5354554e, as 4 big-endian bytes
FingerprintValue(b) ==
    LET v == Xor32(ChecksumIEEE(b), <<21332, 21838>>)
    IN  PutUint16(v[1]) \o PutUint16(v[2])

----------------------------------------------------------------------------
(* gortc.io/stun: message types, attributes, Message. *)

messageHeaderSize == 20
attributeHeaderSize == 4
TransactionIDSize == 12

\* the magic cookie 0x2112a442
magicCookie == <<33, 18, 164, 66>>

ClassRequest == 0
ClassIndication == 1
ClassSuccessResponse == 2
MethodBinding == 1
MethodAllocate == 3

NewType(method, class) == [Method |-> method, Class |-> class]

BindingRequest == NewType(MethodBinding, ClassRequest)
BindingSuccess == NewType(MethodBinding, ClassSuccessResponse)

\* MessageType.Value: the 14 bits of method and class interleaved
TypeValue(t) ==
    LET m  == t.Method
        a  == m % 16
        b  == ((m \div 16) % 8) * 16
        d  == ((m \div 128) % 32) * 128
        c0 == (t.Class % 2) * 16
        c1 == ((t.Class \div 2) % 2) * 2 * 128
    IN  a + 2 * b + 4 * d + c0 + c1

\* MessageType.ReadValue
ReadValue(v) ==
    LET c0 == (v \div 16) % 2
        c1 == (((v \div 128) \div 2) % 2) * 2
        a  == v % 16
        b  == (((v \div 2) \div 16) % 8) * 16
        d  == (((v \div 4) \div 128) % 32) * 128
    IN  [Method |-> a + b + d, Class |-> c0 + c1]

AttrXORMappedAddress == 32
AttrSoftware == 32802
AttrFingerprint == 32808

familyIPv4 == 1
familyIPv6 == 2
IPv4len == 4
IPv6len == 16

\* new(stun.Message)
NewMessage ==
    [Type |-> NewType(0, 0), Length |-> 0, TransactionID |-> Zeros(TransactionIDSize),
     Attributes |-> <<>>, Raw |-> <<>>]

\* Message.Reset: Raw, Length and Attributes are emptied; Type and
\* TransactionID keep their values
Reset(m) == [m EXCEPT !.Raw = <<>>, !.Length = 0, !.Attributes = <<>>]

nearestPaddedValueLength(l) == IF l % 4 = 0 THEN l ELSE l + (4 - (l % 4))

\* IsMessage asking for more than a header
IsMessageStrict(b) ==
    /\ Len(b) > messageHeaderSize
    /\ SubSeq(b, 5, 8) = magicCookie

\* stun.IsMessage
IsMessage(b) ==
    /\ Len(b) >= messageHeaderSize
    /\ SubSeq(b, 5, 8) = magicCookie

RECURSIVE decodeAttributes(_, _, _, _)
\* the attribute loop of Message.Decode over b, the bytes left of the body
decodeAttributes(b, offset, size, attrs) ==
    IF offset >= size THEN [err |-> "nil", Attributes |-> attrs]
    ELSE IF Len(b) < attributeHeaderSize
    THEN [err |-> "attribute header", Attributes |-> attrs]
    ELSE LET aT     == Uint16(b, 1)
             aL     == Uint16(b, 3)
             aBuffL == nearestPaddedValueLength(aL)
             b1     == Drop(b, attributeHeaderSize)
         IN  IF Len(b1) < aBuffL
             THEN [err |-> "attribute value", Attributes |-> attrs]
             ELSE decodeAttributes(Drop(b1, aBuffL), offset + attributeHeaderSize + aBuffL,
                      size,
                      Append(attrs, [Type |-> aT, Length |-> aL, Value |-> SubSeq(b1, 1, aL)]))

\* Decode taking the bytes present for the body, whatever length the header declares
DecodeIgnoreLength(m) ==
    LET b == m.Raw IN
    IF Len(b) < messageHeaderSize THEN [err |-> "unexpected EOF: not enough bytes to read header", m |-> m]
    ELSE IF SubSeq(b, 5, 8) # magicCookie THEN [err |-> "invalid magic cookie", m |-> m]
    ELSE LET size == Len(b) - messageHeaderSize
             as   == decodeAttributes(Drop(b, messageHeaderSize), 0, size, <<>>)
         IN  [err |-> as.err,
              m   |-> [m EXCEPT !.Type = ReadValue(Uint16(b, 1)),
                                !.Length = size,
                                !.TransactionID = SubSeq(b, 9, messageHeaderSize),
                                !.Attributes = as.Attributes]]

\* Message.Decode: decodes m.Raw into m; the pair of the error and the message
Decode(m) ==
    LET b == m.Raw IN
    IF Len(b) < messageHeaderSize THEN [err |-> "unexpected EOF: not enough bytes to read header", m |-> m]
    ELSE LET t        == Uint16(b, 1)
             size     == Uint16(b, 3)
             fullSize == messageHeaderSize + size
         IN  IF SubSeq(b, 5, 8) # magicCookie THEN [err |-> "invalid magic cookie", m |-> m]
             ELSE IF Len(b) < fullSize THEN [err |-> "buffer length is less than message size", m |-> m]
             ELSE LET as == decodeAttributes(SubSeq(b, messageHeaderSize + 1, fullSize), 0, size, <<>>)
                  IN  [err |-> as.err,
                       m   |-> [m EXCEPT !.Type = ReadValue(t),
                                         !.Length = size,
                                         !.TransactionID = SubSeq(b, 9, messageHeaderSize),
                                         !.Attributes = as.Attributes]]

\* Message.Write: copies tBuf to m.Raw and decodes it
Write(m, tBuf) == Decode([m EXCEPT !.Raw = tBuf])

----------------------------------------------------------------------------
(* gortc.io/stun: building a message, as res.Build does in basicProcess. *)

\* copy(raw[at:], bytes)
SetBytes(raw, at, bytes) ==
    SubSeq(raw, 1, at) \o bytes \o SubSeq(raw, at + Len(bytes) + 1, Len(raw))

\* Message.WriteLength
WriteLength(m) == [m EXCEPT !.Raw = SetBytes(m.Raw, 2, PutUint16(m.Length))]

\* Message.WriteType
WriteType(m) == [m EXCEPT !.Raw = SetBytes(m.Raw, 0, PutUint16(TypeValue(m.Type)))]

\* Message.WriteTransactionID
WriteTransactionID(m) == [m EXCEPT !.Raw = SetBytes(m.Raw, 8, m.TransactionID)]

\* Message.WriteHeader: the first 20 bytes of Raw from the message's fields
WriteHeader(m) ==
    LET grown == IF Len(m.Raw) < messageHeaderSize
                 THEN m.Raw \o Zeros(messageHeaderSize - Len(m.Raw)) ELSE m.Raw
        hdr   == PutUint16(TypeValue(m.Type)) \o PutUint16(m.Length)
                     \o magicCookie \o m.TransactionID
    IN  [m EXCEPT !.Raw = SetBytes(grown, 0, hdr)]

\* Message.Add: appends the attribute (t, v), zero-padded to 4 bytes, at
\* offset 20 + m.Length of Raw and writes the new length
Add(m, t, v) ==
    LET first == messageHeaderSize + m.Length
        pad   == nearestPaddedValueLength(Len(v)) - Len(v)
        tlv   == PutUint16(t) \o PutUint16(Len(v)) \o v \o Zeros(pad)
    IN  WriteLength([m EXCEPT
            !.Raw = SubSeq(m.Raw, 1, first) \o tlv,
            !.Length = m.Length + attributeHeaderSize + Len(v) + pad,
            !.Attributes = Append(m.Attributes,
                               [Type |-> t, Length |-> Len(v), Value |-> v])])

\* Message.SetType, the setter of a MessageType
SetType(m, t) == WriteType([m EXCEPT !.Type = t])

\* Message.AddTo setting the field without writing it to Raw
MessageAddToNoWrite(m, b) == [b EXCEPT !.TransactionID = m.TransactionID]

\* Message.AddTo, the setter of a request: copies m's transaction ID to b
MessageAddTo(m, b) == WriteTransactionID([b EXCEPT !.TransactionID = m.TransactionID])

\* stun.NewSoftware("gortc/stund")
software == <<103, 111, 114, 116, 99, 47, 115, 116, 117, 110, 100>>

\* Software.AddTo
SoftwareAddTo(sw, m) == Add(m, AttrSoftware, sw)

\* xorBytes: a[i] ^ b[i] over the shorter of the two
xorBytes(a, b) == [i \in 1..Min(Len(a), Len(b)) |-> XorByte(a[i], b[i])]

\* isIPv4: a 16-byte address of the form ::ffff:a.b.c.d
isIPv4(ip) ==
    /\ \A i \in 1..10 : ip[i] = 0
    /\ ip[11] = 255
    /\ ip[12] = 255

\* XORMappedAddress.AddTo writing port and IP as they are
XORMappedAddressAddToPlain(a, m) ==
    LET v4in6  == Len(a.IP) = IPv6len /\ isIPv4(a.IP)
        family == IF Len(a.IP) = IPv6len /\ ~v4in6 THEN familyIPv6 ELSE familyIPv4
        ip     == IF v4in6 THEN SubSeq(a.IP, 13, 16) ELSE a.IP
    IN  IF Len(a.IP) # IPv6len /\ Len(a.IP) # IPv4len
        THEN [err |-> "invalid length of IP value", m |-> m]
        ELSE [err |-> "nil",
              m   |-> Add(m, AttrXORMappedAddress,
                          PutUint16(family) \o PutUint16(a.Port) \o ip)]

\* XORMappedAddress.AddTo: family, port ^ (cookie >> 16), ip ^ (cookie ++ transaction ID)
XORMappedAddressAddTo(a, m) ==
    LET v4in6    == Len(a.IP) = IPv6len /\ isIPv4(a.IP)
        family   == IF Len(a.IP) = IPv6len /\ ~v4in6 THEN familyIPv6 ELSE familyIPv4
        ip       == IF v4in6 THEN SubSeq(a.IP, 13, 16) ELSE a.IP
        xorValue == magicCookie \o m.TransactionID
    IN  IF Len(a.IP) # IPv6len /\ Len(a.IP) # IPv4len
        THEN [err |-> "invalid length of IP value", m |-> m]
        ELSE [err |-> "nil",
              m   |-> Add(m, AttrXORMappedAddress,
                          PutUint16(family)
                              \o PutUint16(Xor16(a.Port, Uint16(magicCookie, 1)))
                              \o xorBytes(ip, xorValue))]

\* FingerprintAttr.AddTo: the checksum is taken over Raw with the length
\* field already counting the 8 bytes of the fingerprint attribute
FingerprintAddTo(m) ==
    LET counted == WriteLength([m EXCEPT !.Length = m.Length + attributeHeaderSize + 4])
    IN  Add([counted EXCEPT !.Length = m.Length], AttrFingerprint,
            FingerprintValue(counted.Raw))

\* Build applying stun.Fingerprint before the address instead of last
BuildFingerprintEarly(m, r, a) ==
    LET m3 == SoftwareAddTo(software, SetType(MessageAddTo(r, WriteHeader(Reset(m))), BindingSuccess))
    IN  XORMappedAddressAddTo(a, FingerprintAddTo(m3))

\* res.Build(req, stun.BindingSuccess, software, &stun.XORMappedAddress{ip, port},
\* stun.Fingerprint): resets m, writes its header, then applies the setters in
\* order, returning on the first error
Build(m, r, a) ==
    LET m0 == WriteHeader(Reset(m))
        m1 == MessageAddTo(r, m0)
        m2 == SetType(m1, BindingSuccess)
        m3 == SoftwareAddTo(software, m2)
        x  == XORMappedAddressAddTo(a, m3)
    IN  IF x.err # "nil" THEN x
        ELSE [err |-> "nil", m |-> FingerprintAddTo(x.m)]

----------------------------------------------------------------------------
(* The environment: connections, sender addresses and datagrams. *)

\* The net.PacketConn Serve is called with: nil, the *net.UDPConn of
\* ListenUDPAndServe, or another implementation of the interface
Conns == {"nil", "udp", "other"}

NoAddr == [Type |-> "none", IP |-> <<>>, Port |-> 0]

udpAddr4 == [Type |-> "UDPAddr", IP |-> <<192, 168, 1, 2>>, Port |-> 54321]

\* *net.UDPAddr values a UDP socket reports: IPv4, IPv4 in 16 bytes, IPv6
UDPAddrs ==
    { udpAddr4,
      [Type |-> "UDPAddr", IP |-> <<0, 0, 0, 0, 0, 0, 0, 0, 0, 0, 255, 255, 10, 0, 0, 1>>,
       Port |-> 3478],
      [Type |-> "UDPAddr", IP |-> <<32, 1, 13, 184, 0, 0, 0, 0, 0, 0, 0, 0, 0, 0, 0, 1>>,
       Port |-> 40000] }

\* addresses only another net.PacketConn can report: one that is no
\* *net.UDPAddr, and a *net.UDPAddr without IP
OtherAddrs ==
    { [Type |-> "UnixAddr", IP |-> <<>>, Port |-> 0],
      [Type |-> "UDPAddr", IP |-> <<>>, Port |-> 9] }

Senders(conn) == IF conn = "udp" THEN UDPAddrs ELSE OtherAddrs \cup {udpAddr4}

tidA == <<1, 2, 3, 4, 5, 6, 7, 8, 9, 10, 11, 12>>
tidB == <<255, 254, 253, 252, 251, 250, 249, 248, 247, 246, 245, 244>>
badCookie == <<33, 18, 164, 67>>

\* the 20 header bytes of a datagram
Header(t, length, cookie, tid) ==
    PutUint16(TypeValue(t)) \o PutUint16(length) \o cookie \o tid

\* The datagrams ReadFrom delivers: empty, 19 bytes, a wrong cookie, a length
\* field beyond the bytes present, a truncated attribute, Binding requests
\* (without and with an attribute) and messages of other classes and methods
Datagrams ==
    { <<>>,
      SubSeq(Header(BindingRequest, 0, magicCookie, tidA), 1, 19),
      Header(BindingRequest, 0, badCookie, tidA),
      Header(BindingRequest, 4, magicCookie, tidA),
      Header(BindingRequest, 8, magicCookie, tidA) \o <<128, 34, 0, 8, 97, 98, 99, 100>>,
      Header(BindingRequest, 0, magicCookie, tidA),
      Header(BindingRequest, 8, magicCookie, tidB) \o <<128, 34, 0, 3, 97, 98, 99, 0>>,
      Header(BindingSuccess, 0, magicCookie, tidA),
      Header(NewType(MethodBinding, ClassIndication), 0, magicCookie, tidB),
      Header(NewType(MethodAllocate, ClassRequest), 0, magicCookie, tidA) }

----------------------------------------------------------------------------
(* src/main.go *)

errNotSTUNMessage == "not stun message"

\* basicProcess(addr, b, req, res): the error it returns (or the panic it
\* raises) and the two messages as it leaves them
basicProcess(a, b, rq, rs) ==
    IF ~IsMessage(b)
    THEN [err |-> errNotSTUNMessage, panic |-> FALSE, req |-> rq, res |-> rs]
    ELSE LET w == Write(rq, b) IN
         IF w.err # "nil"
         THEN [err |-> "failed to read message", panic |-> FALSE, req |-> w.m, res |-> rs]
         ELSE IF a.Type # "UDPAddr"
         THEN [err |-> "nil", panic |-> TRUE, req |-> w.m, res |-> rs]
         ELSE LET bl == Build(rs, w.m, [IP |-> a.IP, Port |-> a.Port])
              IN  [err |-> bl.err, panic |-> FALSE, req |-> w.m, res |-> bl.m]

NoCall == [active |-> FALSE, b |-> <<>>, addr |-> NoAddr]

\* the flags' defaults: -net udp, -addr 0.0.0.0:3479 (strings are sequences
\* of characters)
flagConfig ==
    [Net |-> "udp",
     Address |-> <<"0", ".", "0", ".", "0", ".", "0", ":", "3", "4", "7", "9">>,
     From |-> "flags"]

\* Serve called with any net.PacketConn, main having called ListenUDPAndServe
Init ==
    /\ c \in Conns
    /\ pc = "Idle"
    /\ iter = 0
    /\ buf = <<>>
    /\ addr = NoAddr
    /\ req = NewMessage
    /\ res = NewMessage
    /\ wcall = NoCall
    /\ recvd = <<>>
    /\ sent = <<>>
    /\ log = <<>>
    /\ ret = "running"
    /\ mpc = "serving"
    /\ cfg = flagConfig
    /\ norm = <<cfg.Address>>

\* Serve's loop going on without res.Reset() and req.Reset()
ServeNextNoReset(rq, rs) ==
    /\ req' = rq
    /\ res' = rs
    /\ buf' = <<>>
    /\ addr' = NoAddr
    /\ pc' = "Idle"
    /\ ret' = ret

\* Serve's loop after serveConn returned nil: res.Reset(), req.Reset(), next call
ServeNext(rq, rs) ==
    /\ req' = Reset(rq)
    /\ res' = Reset(rs)
    /\ buf' = <<>>
    /\ addr' = NoAddr
    /\ pc' = "Idle"
    /\ ret' = ret

\* Serve's loop after serveConn returned err: logs it and returns it
ServeReturn(err, lg) ==
    /\ log' = Append(lg, "serve")
    /\ ret' = err
    /\ pc' = "Returned"

\* serveConn with c == nil returning an error
ServeConnNilReturns ==
    /\ pc = "Idle"
    /\ c = "nil"
    /\ iter < MaxIter
    /\ iter' = iter + 1
    /\ ServeReturn("nil connection", log)
    /\ UNCHANGED <<mainVars, c, buf, addr, req, res, wcall, recvd, sent>>

\* serveConn with c == nil: returns nil at once
ServeConnNil ==
    /\ pc = "Idle"
    /\ c = "nil"
    /\ iter < MaxIter
    /\ iter' = iter + 1
    /\ ServeNext(req, res)
    /\ UNCHANGED <<mainVars, c, wcall, recvd, sent, log>>

\* serveConn up to its call of c.ReadFrom(buf), which blocks
ServeConnReadFrom ==
    /\ pc = "Idle"
    /\ c # "nil"
    /\ iter < MaxIter
    /\ iter' = iter + 1
    /\ pc' = "Reading"
    /\ UNCHANGED <<mainVars, c, buf, addr, req, res, wcall, recvd, sent, log, ret>>

\* ReadFrom returns an error and serveConn returns it
ReadFromErrorFatal ==
    /\ pc = "Reading"
    /\ ServeReturn("read error", Append(log, "ReadFrom"))
    /\ UNCHANGED <<mainVars, c, iter, buf, addr, req, res, wcall, recvd, sent>>

\* ReadFrom returns an error: serveConn logs it and returns nil
ReadFromError ==
    /\ pc = "Reading"
    /\ log' = Append(log, "ReadFrom")
    /\ ServeNext(req, res)
    /\ UNCHANGED <<mainVars, c, iter, wcall, recvd, sent>>

\* ReadFrom returns n bytes and the sender's address
ReadFromOk ==
    /\ pc = "Reading"
    /\ \E d \in Datagrams, a \in Senders(c) :
          /\ buf' = d
          /\ addr' = a
          /\ recvd' = Append(recvd, [b |-> d, addr |-> a, iter |-> iter])
    /\ pc' = "Processing"
    /\ UNCHANGED <<mainVars, c, iter, req, res, wcall, sent, log, ret>>

\* c.WriteTo(res.Raw, addr) started without being waited for
CallWriteToAsync(rq, rs) ==
    /\ wcall' = [active |-> TRUE, b |-> rs.Raw, addr |-> addr]
    /\ ServeNext(rq, rs)

\* the call c.WriteTo(res.Raw, addr), which blocks until the datagram is sent
CallWriteTo(rq, rs) ==
    /\ req' = rq
    /\ res' = rs
    /\ wcall' = [active |-> TRUE, b |-> rs.Raw, addr |-> addr]
    /\ pc' = "Writing"
    /\ UNCHANGED <<buf, addr, ret>>

\* serveConn from req.Write(buf[:n]) to its call of c.WriteTo(res.Raw, addr)
Process ==
    /\ pc = "Processing"
    /\ LET w == Write(req, buf) IN
       IF w.err # "nil"
       THEN /\ ServeReturn(w.err, Append(log, "Write"))
            /\ req' = w.m
            /\ UNCHANGED <<buf, addr, res, wcall>>
       ELSE LET p == basicProcess(addr, buf, w.m, res) IN
            IF p.panic
            THEN /\ pc' = "Panicked"
                 /\ req' = p.req
                 /\ res' = p.res
                 /\ UNCHANGED <<buf, addr, wcall, log, ret>>
            ELSE IF p.err # "nil"
            THEN /\ log' = IF p.err = errNotSTUNMessage THEN log
                           ELSE Append(log, "basicProcess")
                 /\ ServeNext(p.req, p.res)
                 /\ UNCHANGED wcall
            ELSE /\ CallWriteTo(p.req, p.res)
                 /\ UNCHANGED log
    /\ UNCHANGED <<mainVars, c, iter, recvd, sent>>

\* WriteTo sent the datagram and Serve returns instead of looping
WriteToOkNoLoop ==
    /\ pc = "Writing"
    /\ sent' = Append(sent, [b |-> wcall.b, addr |-> wcall.addr, iter |-> iter])
    /\ wcall' = NoCall
    /\ pc' = "Returned"
    /\ UNCHANGED <<mainVars, c, iter, buf, addr, req, res, recvd, log, ret>>

\* WriteTo sending the datagram twice
WriteToOkTwice ==
    /\ pc = "Writing"
    /\ sent' = sent \o << [b |-> wcall.b, addr |-> wcall.addr, iter |-> iter],
                          [b |-> wcall.b, addr |-> wcall.addr, iter |-> iter] >>
    /\ wcall' = NoCall
    /\ ServeNext(req, res)
    /\ UNCHANGED <<mainVars, c, iter, recvd, log>>

\* WriteTo sent the datagram: serveConn returns nil
WriteToOk ==
    /\ pc = "Writing"
    /\ sent' = Append(sent, [b |-> wcall.b, addr |-> wcall.addr, iter |-> iter])
    /\ wcall' = NoCall
    /\ ServeNext(req, res)
    /\ UNCHANGED <<mainVars, c, iter, recvd, log>>

\* WriteTo returns an error and serveConn returns nil
WriteToErrorAbsorbed ==
    /\ pc = "Writing"
    /\ wcall' = NoCall
    /\ log' = Append(log, "WriteTo")
    /\ ServeNext(req, res)
    /\ UNCHANGED <<mainVars, c, iter, recvd, sent>>

\* WriteTo returns an error: serveConn logs it and returns it
WriteToError ==
    /\ pc = "Writing"
    /\ wcall' = NoCall
    /\ ServeReturn("write error", Append(log, "WriteTo"))
    /\ UNCHANGED <<mainVars, c, iter, buf, addr, req, res, recvd, sent>>

Next ==
    \/ ServeConnNil
    \/ ServeConnReadFrom
    \/ ReadFromError
    \/ ReadFromOk
    \/ Process
    \/ WriteToOk
    \/ WriteToError

Spec == Init /\ [][Next]_vars

\* ---------------------------------------------------------------------
\* normalize and main. A string is a sequence of one-character strings.

\* stun.DefaultPort
DefaultPort == 3478

Digits == <<"0", "1", "2", "3", "4", "5", "6", "7", "8", "9">>

RECURSIVE Itoa(_)
\* the verb %d of fmt.Sprintf on a non-negative int
Itoa(n) ==
    IF n < 10 THEN <<Digits[n + 1]>>
    ELSE Itoa(n \div 10) \o <<Digits[(n % 10) + 1]>>

\* strings.Contains(s, ":")
ContainsColon(s) == \E i \in DOMAIN s : s[i] = ":"

\* fmt.Sprintf("%s:%d", address, port)
Sprintf(address, port) == address \o <<":">> \o Itoa(port)

\* normalize appending the port whatever the address holds
normalizeAlwaysAppend(address) ==
    LET a == IF Len(address) = 0 THEN <<"0", ".", "0", ".", "0", ".", "0">>
             ELSE address
    IN  Sprintf(a, DefaultPort)

\* normalize(address)
normalize(address) ==
    LET a == IF Len(address) = 0 THEN <<"0", ".", "0", ".", "0", ".", "0">>
             ELSE address
    IN  IF ~ContainsColon(a) THEN Sprintf(a, DefaultPort) ELSE a

\* the index of the last ":" of s, 0 when there is none
LastColon(s) ==
    IF ContainsColon(s)
    THEN CHOOSE i \in DOMAIN s :
            s[i] = ":" /\ \A j \in DOMAIN s : s[j] = ":" => j <= i
    ELSE 0

\* net.ListenPacket can resolve laddr only if it splits into host and port:
\* a last ":" with a host before it that holds no ":" (bracketed hosts are
\* not among the addresses drawn)
SplitHostPortOk(s) ==
    /\ LastColon(s) > 0
    /\ ~ContainsColon(SubSeq(s, 1, LastColon(s) - 1))

\* the state of Serve's variables while nothing serves
NotServing ==
    /\ c = "nil"
    /\ pc = "NotServing"
    /\ iter = 0
    /\ buf = <<>>
    /\ addr = NoAddr
    /\ req = NewMessage
    /\ res = NewMessage
    /\ wcall = NoCall
    /\ recvd = <<>>
    /\ sent = <<>>
    /\ log = <<>>
    /\ ret = "running"

serveVars == <<c, pc, iter, buf, addr, req, res, wcall, recvd, sent, log, ret>>

\* the characters addresses are made of and their longest length
AddrChars == {"1", "a", ".", ":"}
MaxAddrLen == 3
Addresses == UNION {[1..n -> AddrChars] : n \in 0..MaxAddrLen}

\* the number of successive calls of normalize
MaxCalls == 2

\* normalize as a function of its own: any address is its input
NormInit ==
    /\ NotServing
    /\ mpc = "normalize"
    /\ cfg \in [Net : {"udp"}, Address : Addresses, From : {"flags"}]
    /\ norm = <<>>

\* normalize applied to the address, then to its own result
Normalize ==
    /\ mpc = "normalize"
    /\ Len(norm) < MaxCalls
    /\ norm' = Append(norm, normalize(IF norm = <<>> THEN cfg.Address
                                      ELSE norm[Len(norm)]))
    /\ UNCHANGED <<serveVars, mpc, cfg>>

NormNext == Normalize

NormSpec == NormInit /\ [][NormNext]_vars

\* the values -net or the file's Net may hold, and the addresses
MainNets == {"udp", "tcp", ""}
MainAddrs == { <<>>, <<"1", ":", "1">>, <<":", ":", "1">> }

\* a switch that lets every network through to ListenUDPAndServe
supportedAny(net) == net \in MainNets

\* the case "udp" of main's switch
supported(net) == net = "udp"

\* main after flag.Parse(): var _config Config, no socket bound
MainInit ==
    /\ NotServing
    /\ mpc = "main"
    /\ cfg = [Net |-> "", Address |-> <<>>, From |-> "none"]
    /\ norm = <<>>

\* ioutil.ReadFile fails: _config takes the values of the flags
ReadFileError ==
    /\ mpc = "main"
    /\ \E n \in MainNets, a \in MainAddrs :
          cfg' = [Net |-> n, Address |-> a, From |-> "flags"]
    /\ mpc' = "switch"
    /\ UNCHANGED <<serveVars, norm>>

\* the file is read and yaml.Unmarshal fails: log.Panicln
UnmarshalError ==
    /\ mpc = "main"
    /\ mpc' = "panicked"
    /\ UNCHANGED <<serveVars, cfg, norm>>

\* the file is read and parsed: _config holds what the file says (a field
\* the file leaves out stays empty)
UnmarshalOk ==
    /\ mpc = "main"
    /\ \E n \in MainNets, a \in MainAddrs :
          cfg' = [Net |-> n, Address |-> a, From |-> "file"]
    /\ mpc' = "switch"
    /\ UNCHANGED <<serveVars, norm>>

\* the default case of the switch: log.Fatalln("unsupported network:", ...)
SwitchDefault ==
    /\ mpc = "switch"
    /\ ~supported(cfg.Net)
    /\ mpc' = "exited"
    /\ UNCHANGED <<serveVars, cfg, norm>>

\* case "udp": normalize, then ListenUDPAndServe whose net.ListenPacket
\* fails; it returns the error and log.Fatal ends the process
ListenPacketError ==
    /\ mpc = "switch"
    /\ supported(cfg.Net)
    /\ norm' = <<normalize(cfg.Address)>>
    /\ mpc' = "exited"
    /\ UNCHANGED <<serveVars, cfg>>

\* case "udp": normalize, then ListenUDPAndServe whose net.ListenPacket
\* binds the socket; s.Serve(c) is called
ListenPacketOk ==
    /\ mpc = "switch"
    /\ supported(cfg.Net)
    /\ SplitHostPortOk(normalize(cfg.Address))
    /\ norm' = <<normalize(cfg.Address)>>
    /\ c' = "udp"
    /\ pc' = "Idle"
    /\ mpc' = "serving"
    /\ UNCHANGED <<iter, buf, addr, req, res, wcall, recvd, sent, log, ret, cfg>>

\* Serve returned, so did ListenUDPAndServe: log.Fatal ends the process
LogFatal ==
    /\ mpc = "serving"
    /\ pc = "Returned"
    /\ mpc' = "exited"
    /\ UNCHANGED <<serveVars, cfg, norm>>

MainNext ==
    \/ ReadFileError
    \/ UnmarshalError
    \/ UnmarshalOk
    \/ SwitchDefault
    \/ ListenPacketError
    \/ ListenPacketOk
    \/ ServeConnReadFrom
    \/ ReadFromError
    \/ ReadFromOk
    \/ Process
    \/ WriteToOk
    \/ WriteToError
    \/ LogFatal

MainSpec == MainInit /\ [][MainNext]_vars

\* the Packet Server on the socket main binds, with receives and sends that
\* succeed
LiveInit == Init /\ c = "udp"

LiveNext ==
    \/ ServeConnReadFrom
    \/ ReadFromOk
    \/ Process
    \/ WriteToOk

\* Process as pc shows it: Process is enabled exactly when pc = "Processing"
\* and each of its steps takes pc to one of these values
ProcessDone ==
    /\ pc = "Processing"
    /\ pc' \in {"Idle", "Writing", "Returned", "Panicked"}

\* serveConn runs in one goroutine that nothing suspends: a step it can take
\* it takes. A send that cannot fail returns. No datagram has to arrive.
LiveSpec ==
    /\ LiveInit
    /\ [][LiveNext]_vars
    /\ WF_vars(ServeConnReadFrom)
    /\ WF_pc(ProcessDone)
    /\ WF_vars(WriteToOk)

----------------------------------------------------------------------------
(* Vocabulary of the properties, stated on the bytes and the histories. *)

\* fewer than 20 bytes, a wrong magic cookie, or a declared length beyond
\* the bytes present
NotProtocol(b) ==
    \/ Len(b) < 20
    \/ SubSeq(b, 5, 8) # <<33, 18, 164, 66>>
    \/ Uint16(b, 3) > Len(b) - 20

\* the first attribute declares more value bytes than the body holds
FirstAttributeTruncated(b) ==
    /\ ~NotProtocol(b)
    /\ Uint16(b, 3) > 0
    /\ \/ Len(b) < 24
       \/ nearestPaddedValueLength(Uint16(b, 23)) > Len(b) - 24

\* the datagram does not decode as a protocol message
Malformed(b) == NotProtocol(b) \/ FirstAttributeTruncated(b)

\* the datagrams received in the iteration a response was sent in
RequestsOf(s) == {recvd[j] : j \in {k \in DOMAIN recvd : recvd[k].iter = s.iter}}

\* the responses: those sent, and the one a WriteTo in progress is sending
Responses ==
    {sent[i] : i \in DOMAIN sent}
        \cup (IF wcall.active THEN {[b |-> wcall.b, addr |-> wcall.addr, iter |-> iter]} ELSE {})

\* class and method of a datagram with a full header
IsBindingRequest(b) == Uint16(b, 1) = 1

\* net.IP.To4 / net.IP.Equal: an IPv4 address is the same in 4 and in 16 bytes
To4(ip) == IF Len(ip) = 16 /\ isIPv4(ip) THEN SubSeq(ip, 13, 16) ELSE ip
IPEqual(x, y) == To4(x) = To4(y)

\* the address an observed-address attribute value carries, read back as
\* XORMappedAddress.GetFrom reads it
XORMappedAddressGetFrom(v, transactionID) ==
    LET family == Uint16(v, 1)
        ipLen  == IF family = familyIPv6 THEN IPv6len ELSE IPv4len
    IN  [IP   |-> xorBytes(SubSeq(v, 5, 4 + ipLen), magicCookie \o transactionID),
         Port |-> Xor16(Uint16(v, 3), Uint16(magicCookie, 1))]

\* ReadFrom, WriteTo returning an error, seen as a step
ReadFails == pc = "Reading" /\ pc' # "Reading" /\ recvd' = recvd
WriteFails == pc = "Writing" /\ pc' # "Writing" /\ sent' = sent

LastLog(k) == IF Len(log) >= k THEN log[Len(log) - k + 1] ELSE "none"

----------------------------------------------------------------------------
(* C1: every received datagram that fails to decode is discarded and the    *)
(* server returns to Idle: Serve does not return and no error escapes       *)
(* serveConn.  (The code returns the decode error from serveConn and Serve  *)
(* returns it.)                                                             *)
C1_MalformedDiscarded ==
    [][(pc = "Processing" /\ Malformed(buf)) => (pc' = "Idle" /\ ret' = "running")]_vars

(* C2: a datagram that fails to decode never produces a response: no        *)
(* WriteTo is called for it and no datagram sent belongs to its iteration.  *)
C2_NoResponseToMalformed ==
    \A s \in Responses : \A r \in RequestsOf(s) : ~Malformed(r.b)

C2_Witness ==
    /\ pc = "Returned"
    /\ Len(sent) = 1
    /\ Len(recvd) = 2
    /\ NotProtocol(recvd[2].b)
    /\ recvd[2].iter = iter
    /\ sent[1].iter # iter

(* C3: a decoded message whose class/method is not Request/Binding gets no  *)
(* response.  (The code builds and sends a Binding success for it.)         *)
C3_OnlyBindingRequestsAnswered ==
    \A s \in Responses : \A r \in RequestsOf(s) : IsBindingRequest(r.b)

C5_SendErrorFatal ==
    /\ [][WriteFails =>
            /\ log' = log \o <<"WriteTo", "serve">>
            /\ pc' = "Returned"
            /\ ret' # "running"]_vars
    /\ [][pc = "Returned" => (pc' = "Returned" /\ recvd' = recvd /\ sent' = sent)]_vars

C5_Witness ==
    /\ pc = "Returned"
    /\ LastLog(2) = "WriteTo"
    /\ LastLog(1) = "serve"
    /\ Len(sent) = 1
    /\ Len(recvd) = 2

(* C6: whenever Serve has returned, the last iteration ended in a failed    *)
(* ReadFrom or a failed WriteTo; no datagram's content makes Serve return.  *)
(* (C1's decode error does.)                                                *)
C6_ReturnsOnlySocketError ==
    pc = "Returned" => LastLog(2) \in {"ReadFrom", "WriteTo"}

(* C7: every response carries, in bytes 8..19, the 12 bytes of the          *)
(* transaction ID of the request it answers, whatever the reused messages   *)
(* held before.                                                             *)
C7_TransactionIDEchoed ==
    \A s \in Responses : \A r \in RequestsOf(s) :
        /\ Len(s.b) >= 20
        /\ SubSeq(s.b, 9, 20) = SubSeq(r.b, 9, 20)

\* two responses sent through the same two messages, with different IDs
C7_Witness ==
    /\ Len(sent) = 2
    /\ SubSeq(sent[1].b, 9, 20) # SubSeq(sent[2].b, 9, 20)

C9_ObservedAddress ==
    \A s \in Responses : \A r \in RequestsOf(s) :
        LET d == Decode([NewMessage EXCEPT !.Raw = s.b])
            x == XORMappedAddressGetFrom(d.m.Attributes[2].Value, d.m.TransactionID)
        IN  /\ s.addr = r.addr
            /\ d.m.Attributes[2].Type = 32
            /\ IPEqual(x.IP, r.addr.IP)
            /\ x.Port = r.addr.Port
            /\ Len(x.IP) = (IF Uint16(d.m.Attributes[2].Value, 1) = 2 THEN 16 ELSE 4)

\* two responses to different senders, the second one an IPv4 address in 16 bytes
C9_Witness ==
    /\ Len(sent) = 2
    /\ sent[1].addr # sent[2].addr
    /\ Len(sent[2].addr.IP) = 16
    /\ isIPv4(sent[2].addr.IP)
    /\ SubSeq(recvd[2].b, 21, Len(recvd[2].b)) # <<>>

(* C10: processing is sequential: while a datagram is being processed or    *)
(* sent it is the last one received, no receive is outstanding and at most  *)
(* one WriteTo is in progress, that of the current iteration.               *)
C10_Sequential ==
    /\ pc \in {"Processing", "Writing"} =>
          /\ recvd # <<>>
          /\ recvd[Len(recvd)] = [b |-> buf, addr |-> addr, iter |-> iter]
          /\ \A j \in DOMAIN recvd : recvd[j].iter = iter => j = Len(recvd)
    /\ wcall.active => (pc = "Writing" /\ wcall.addr = addr)
    /\ pc \in {"Idle", "Reading"} => (buf = <<>> /\ ~wcall.active)

C10_Witness ==
    /\ pc = "Writing"
    /\ Len(recvd) = 2
    /\ Len(sent) = 1

\* ---------------------------------------------------------------------
\* C11: a datagram that fails decoding is dropped silently: the iteration
\* that processes it adds no entry to the log.
C11_DecodeFailureSilent ==
    [][(pc = "Processing" /\ Malformed(buf)) => log' = log]_vars

\* ---------------------------------------------------------------------
\* C13: a sender address that is not a *net.UDPAddr is a handled error: the
\* datagram is dropped, nothing is sent, nothing panics and Serve goes on
\* to its next iteration.
C13_UnknownAddrRecoverable ==
    [][(pc = "Processing" /\ ~Malformed(buf) /\ addr.Type # "UDPAddr")
          => (pc' = "Idle" /\ ret' = "running" /\ sent' = sent)]_vars

\* ---------------------------------------------------------------------
\* C14: whenever serveConn is entered, on the first iteration and after a
\* read error, a drop or a successful send, req and res are in the state
\* Reset leaves a message in: no raw bytes, length 0, no attributes.
IsReset(m) == m.Raw = <<>> /\ m.Length = 0 /\ m.Attributes = <<>>

C17_NotSTUNUnreachable ==
    [][pc = "Processing" =>
         /\ Write(req, buf).err = "nil" =>
               /\ IsMessage(buf)
               /\ basicProcess(addr, buf, Write(req, buf).m, res).err
                     \notin {errNotSTUNMessage, "failed to read message"}
         /\ pc' = "Idle" => log' = Append(log, "basicProcess")
         /\ Malformed(buf) =>
               /\ pc' = "Returned"
               /\ log' = log \o <<"Write", "serve">>]_vars

\* res.Build failed in one iteration, req.Write in the next
C17_Witness ==
    /\ pc = "Returned"
    /\ log = <<"basicProcess", "Write", "serve">>

\* ---------------------------------------------------------------------
\* C18: at most one response per received datagram: there are never more
\* WriteTo calls than successful ReadFrom calls, no iteration sends twice,
\* and every datagram sent (or being sent) goes to the sender of the
\* datagram read in the same iteration.
C18_AtMostOneResponse ==
    /\ Len(sent) <= Len(recvd)
    /\ \A i, k \in DOMAIN sent : sent[i].iter = sent[k].iter => i = k
    /\ \A i \in DOMAIN sent :
          \E j \in DOMAIN recvd :
             recvd[j].iter = sent[i].iter /\ recvd[j].addr = sent[i].addr
    /\ wcall.active =>
          /\ pc = "Writing"
          /\ recvd[Len(recvd)].iter = iter
          /\ recvd[Len(recvd)].addr = wcall.addr
          /\ \A i \in DOMAIN sent : sent[i].iter < iter

\* two datagrams from two senders, each answered once
C18_Witness ==
    /\ Len(recvd) = 2
    /\ Len(sent) = 2
    /\ sent[1].addr # sent[2].addr

\* ---------------------------------------------------------------------
\* C19: Serve with a nil connection never returns and never does anything:
\* serveConn returns nil without reading, sending or logging, and Serve
\* resets the messages and calls it again.
C19_NilConnLivelock ==
    c = "nil" =>
       /\ pc = "Idle"
       /\ ret = "running"
       /\ recvd = <<>> /\ sent = <<>> /\ log = <<>>
       /\ ~wcall.active
       /\ req = NewMessage /\ res = NewMessage
       /\ iter < MaxIter => ENABLED ServeConnNil

\* serveConn has returned nil twice on a nil connection
C19_Witness ==
    /\ c = "nil"
    /\ iter >= 2
    /\ ret = "running"

\* ---------------------------------------------------------------------
\* C12: when receives and sends succeed, every valid Binding request read
\* is followed by exactly one send, of its response to its sender; then
\* Serve is back in Idle and, while it is allowed another iteration, calls
\* ReadFrom again. It never stays in Processing.
SentIn(k) == {i \in DOMAIN sent : sent[i].iter = k}

ValidRequestIn(k) ==
    /\ pc = "Processing"
    /\ iter = k
    /\ ~Malformed(buf)
    /\ IsBindingRequest(buf)

AnsweredIn(k) ==
    /\ pc = "Idle"
    /\ iter = k
    /\ Cardinality(SentIn(k)) = 1
    /\ \A i \in SentIn(k) :
          /\ sent[i].addr = recvd[k].addr
          /\ SubSeq(sent[i].b, 9, 20) = SubSeq(recvd[k].b, 9, 20)

C12_RequestAnswered ==
    /\ \A k \in 1..MaxIter : ValidRequestIn(k) ~> AnsweredIn(k)
    /\ (pc = "Idle" /\ iter < MaxIter) ~> (pc = "Reading")
    /\ [](\A k \in 1..MaxIter : Cardinality(SentIn(k)) <= 1)

\* a request was answered and ReadFrom is called again
C12_Witness ==
    /\ pc = "Reading"
    /\ iter = 2
    /\ IsBindingRequest(recvd[1].b)
    /\ Cardinality(SentIn(1)) = 1

\* ---------------------------------------------------------------------
\* C15: normalize("") is the wildcard address with the default port; an
\* address without a port, a bare IPv6 literal such as "::1" included, gets
\* ":3478" appended; an address that holds a port comes back unchanged.
C15_NormalizePort ==
    Len(norm) >= 1 =>
       norm[1] = IF cfg.Address = <<>>
                 THEN <<"0", ".", "0", ".", "0", ".", "0", ":", "3", "4", "7", "8">>
                 ELSE IF SplitHostPortOk(cfg.Address) THEN cfg.Address
                 ELSE cfg.Address \o <<":", "3", "4", "7", "8">>

C20_NormalizeIdempotent ==
    /\ Len(norm) >= 1 => norm[1] # <<>> /\ ContainsColon(norm[1])
    /\ Len(norm) >= 2 => norm[2] = norm[1]

\* the empty address normalized twice
C20_Witness ==
    /\ Len(norm) = 2
    /\ cfg.Address = <<>>
    /\ norm[2] = <<"0", ".", "0", ".", "0", ".", "0", ":", "3", "4", "7", "8">>

====
